---- MODULE Spec2Model ----
(***************************************************************************)
(* Model of lepton_viewer_rpi3.py: the libuvc capture callback (producer), *)
(* the bounded frame queue, and LeptonViewer's render loop (consumer) with *)
(* its button debounce, power toggle and thermal shutdown.                 *)
(*                                                                         *)
(* Spec is run() as a whole, in a directory without .lut files.            *)
(* SpecCatalog is the colormap catalog: load_custom_luts over the files of *)
(* the directory, then the presses of button A.  SpecRender is the         *)
(* colormap step and the drawing of one dequeued frame.  SpecTable,        *)
(* SpecGradient and SpecGain work on values: the entries of one loaded     *)
(* table, the entries of a gradient made by create_custom_lut, and the     *)
(* pixels of one frame in the gain step.                                   *)
(*                                                                         *)
(* Time is counted in ticks of 100 ms.  The clock is read once per loop    *)
(* iteration (current_time = time.time()); the time that passed since the  *)
(* previous read is drawn from Deltas.  Temperatures are the sensor's      *)
(* milli-degree integers.  Logging is not modelled.  The locals of one     *)
(* iteration (cpu_temp, button_a_pressed, button_b_pressed, frame_uyvy)    *)
(* are cleared once the code no longer reads them.  KeyboardInterrupt is   *)
(* taken between the steps of an iteration.  Once set up, the GPIO pins    *)
(* do not raise and the black image is drawn without error; an iteration's *)
(* Exception comes from processing or drawing its frame.  Arrays are kept  *)
(* as shape, dtype and contiguity, except in the three specifications on   *)
(* values.  A libuvc release call on a resource that was already released  *)
(* either returns or kills the process.                                    *)
(***************************************************************************)
EXTENDS Integers, Sequences, FiniteSets, TLC

\* ---------------------------------------------------------------- bounds
MaxIter == 3         \* loop iterations explored
MaxFrames == 3       \* callback invocations explored
StartTime == 10      \* clock value (ticks) when the loop is entered
MaxLutFiles == 2     \* .lut files in the working directory

\* ------------------------------------------------------ program constants
CAM_WIDTH == 160
CAM_HEIGHT == 120
BUF_SIZE == 2
CPU_TEMP_SHUTDOWN_CHECK_INTERVAL_S == 30
CPU_TEMP_SHUTDOWN_THRESHOLD_C == 75
DEBOUNCE_TICKS == 3          \* the 0.3 s of both debounce tests, in ticks
NUM_BUILTIN_COLORMAPS == 5
NUM_GRADIENT_LUTS == 3

CPU_GOVERNOR_SAVE == "powersave"
CPU_GOVERNOR_RUN == "ondemand"

NumColormaps == NUM_BUILTIN_COLORMAPS + NUM_GRADIENT_LUTS

\* ------------------------------------------------------------ input sets
Deltas == {1, 3, 300}

TempNone == [valid |-> FALSE, milli |-> 0]
Temp(m) == [valid |-> TRUE, milli |-> m]
TempReadings == {TempNone, Temp(60000), Temp(75000), Temp(80000)}

NoFrame == [ptr |-> FALSE, data |-> FALSE, width |-> 0, height |-> 0,
            data_bytes |-> 0, seq |-> 0]
Frame(w, h, n, s) == [ptr |-> TRUE, data |-> TRUE, width |-> w, height |-> h,
                      data_bytes |-> n, seq |-> s]
\* what libuvc may hand to the callback as its s-th frame
FrameInputs(s) ==
    { Frame(CAM_WIDTH, CAM_HEIGHT, CAM_WIDTH * CAM_HEIGHT * 2, s),
      Frame(CAM_WIDTH \div 2, CAM_HEIGHT, CAM_WIDTH * CAM_HEIGHT * 2, s),
      Frame(CAM_WIDTH, CAM_HEIGHT \div 2, CAM_WIDTH * CAM_HEIGHT * 2, s),
      Frame(CAM_WIDTH, CAM_HEIGHT, CAM_WIDTH * CAM_HEIGHT * 2 - 1, s),
      [Frame(CAM_WIDTH, CAM_HEIGHT, CAM_WIDTH * CAM_HEIGHT * 2, s) EXCEPT !.data = FALSE],
      [NoFrame EXCEPT !.seq = s] }

VARIABLES
    pc,                 \* position of the main thread in run()
    iter,               \* loop iterations started
    current_time,       \* last value read from time.time()
    is_running,
    display_active,
    stream_is_active,
    backlight,          \* backlight.value
    uvc_devh,           \* the device handle is non-null
    governor_request,   \* last governor passed to set_cpu_governor
    cpu_governor,       \* governor the system is in
    last_temp_shutdown_check_time,
    last_button_a_time,
    last_button_b_time,
    cpu_temp,           \* reading of this iteration's temperature check
    shutdown_requested, \* shutdown_pi() was called
    button_a_pressed,   \* the two button reads of this iteration
    button_b_pressed,
    colormap_index,
    frame_uyvy,         \* frame dequeued in the current iteration
    displayed,          \* seq of the frame on the LCD, 0 for the black image
    waited,             \* how the current iteration waited: none, get, sleep
    frame_queue,
    hw_streaming,       \* libuvc is streaming and invoking the callback
    prod_pc,            \* position of the callback thread
    cb_frame,           \* argument of the callback invocation in progress
    cb_outcome,         \* how the last invocation returned
    next_seq,           \* number of the next frame libuvc delivers
    init_error,         \* the step of run()'s setup that failed, or none
    exit_code,          \* exit status of the process, none while it runs
    loaded_luts,        \* catalog entries appended by load_custom_luts
    current_colormap,   \* [name, table] last selected from the catalog
    lut_files,          \* .lut files load_custom_luts has still to visit
    scanned,            \* .lut files it has visited, in the order of the listing
    frame_color,        \* result of the colormap step for the current frame
    validation_error,   \* the colormap step logged a failed LUT validation
    lut_values,         \* the list parsed from the .lut file being loaded
    lut_rows,           \* the rows of lut_final, the table made of lut_values
    gradient_call,      \* arguments of a create_custom_lut call
    custom_lut,         \* what that call returned
    frame_gray,         \* the gray pixels of the frame being processed
    frame_gray_agc,     \* the pixels after the gain step
    uvc_ctx,            \* the UVC context pointer is non-null
    uvc_dev,            \* the device pointer is non-null
    released,           \* calls of uvc_exit, uvc_unref_device, uvc_close so far
    dequeued            \* highest frame number the render loop has dequeued

mainVars == <<pc, iter, current_time, is_running, display_active, stream_is_active,
              backlight, uvc_devh, governor_request, cpu_governor,
              last_temp_shutdown_check_time, last_button_a_time, last_button_b_time,
              cpu_temp, shutdown_requested, button_a_pressed, button_b_pressed,
              colormap_index, frame_uyvy, displayed, waited,
              init_error, exit_code, loaded_luts, current_colormap, lut_files,
              scanned, frame_color, validation_error, lut_values, lut_rows, gradient_call,
              custom_lut, frame_gray, frame_gray_agc, uvc_ctx, uvc_dev, released,
              dequeued>>
valueVars == <<lut_values, lut_rows, gradient_call, custom_lut, frame_gray,
               frame_gray_agc>>
uvcVars == <<uvc_ctx, uvc_dev, released>>
tableVars == <<loaded_luts, lut_files, scanned, frame_color, validation_error,
               valueVars>>
\* left alone by every step of the viewer loop but the dequeue
quietVars == <<tableVars, uvcVars, dequeued>>
prodVars == <<prod_pc, cb_frame, cb_outcome, next_seq>>
vars == <<mainVars, prodVars, frame_queue, hw_streaming>>

\* ------------------------------------------------------------- helpers

\* frame_queue.full()
QueueFull_off(q) == Len(q) > BUF_SIZE
QueueFull(q) == Len(q) >= BUF_SIZE

\* the checks of py_frame_callback before a frame is copied
FrameAccepted_nolen(f) ==
    /\ f.ptr /\ f.data
    /\ f.width = CAM_WIDTH /\ f.height = CAM_HEIGHT
FrameAccepted(f) ==
    /\ ~(~f.ptr \/ ~f.data \/ f.width # CAM_WIDTH \/ f.height # CAM_HEIGHT)
    /\ ~(f.data_bytes # CAM_WIDTH * CAM_HEIGHT * 2)

\* current_time - last > 0.3
DebounceElapsed_ge(t, last) == t - last >= DEBOUNCE_TICKS
DebounceElapsed(t, last) == t - last > DEBOUNCE_TICKS

\* current_time - last_temp_shutdown_check_time > CPU_TEMP_SHUTDOWN_CHECK_INTERVAL_S
\* (10 ticks to the second)
ThermalPollDue(t, last) == t - last > CPU_TEMP_SHUTDOWN_CHECK_INTERVAL_S * 10

\* cpu_temp > CPU_TEMP_SHUTDOWN_THRESHOLD_C, with cpu_temp = milli / 1000.0
OverThreshold_ge(t) == t.milli >= CPU_TEMP_SHUTDOWN_THRESHOLD_C * 1000
OverThreshold_high(t) == t.milli > (CPU_TEMP_SHUTDOWN_THRESHOLD_C + 10) * 1000
OverThreshold(t) == t.milli > CPU_TEMP_SHUTDOWN_THRESHOLD_C * 1000

\* the get_nowait loop that empties the queue
RECURSIVE ClearQueue(_)
ClearQueue_none(q) == q
ClearQueue(q) == IF q = <<>> THEN q ELSE ClearQueue(Tail(q))

\* set_cpu_governor: the governor the system is in afterwards; a failed
\* cpufreq-set leaves it as it was
GovernorAfter(g, ok) == IF ok THEN g ELSE cpu_governor

\* set_cpu_governor(governor): best effort, its result is not used
set_cpu_governor_drop(g) ==
    \E ok \in BOOLEAN :
        /\ governor_request' = IF ok THEN g ELSE governor_request
        /\ cpu_governor' = GovernorAfter(g, ok)
set_cpu_governor(g) ==
    \E ok \in BOOLEAN :
        /\ governor_request' = g
        /\ cpu_governor' = GovernorAfter(g, ok)

\* start_uvc_stream: the new stream_is_active, given uvc_start_streaming's result
StartStream_noflag(ok) == stream_is_active
StartStream(ok) ==
    IF stream_is_active THEN TRUE
    ELSE IF ~uvc_devh THEN FALSE
    ELSE ok
\* uvc_start_streaming was called and succeeded
StartCalls(ok) == ~stream_is_active /\ uvc_devh /\ ok

\* stop_uvc_stream goes past its two early returns
StopCalls_never == FALSE
StopCalls == stream_is_active /\ uvc_devh

\* the governor requested for a display state
GovernorFor_swapped(active) == IF active THEN CPU_GOVERNOR_SAVE ELSE CPU_GOVERNOR_RUN
GovernorFor(active) == IF active THEN CPU_GOVERNOR_RUN ELSE CPU_GOVERNOR_SAVE

\* where the main thread goes after shutdown_pi and the 10 s sleep: break
ThermalBreak_fallthrough == "buttons"
ThermalBreak == "exit"

LoopStages == {"loop", "buttons", "frame", "render"}

\* where the main thread goes from the loop's except Exception handler
AfterLoopError_abort == "exit"
AfterLoopError == "loop"

\* how the setup in run() ends: ok, or the call that failed
InitOutcomes ==
    {"ok", "display", "uvc_init", "uvc_find_device", "uvc_open",
     "uvc_get_stream_ctrl_format_size"}

\* exit status: exit(1) of the display setup passes through run()'s finally;
\* an Exception is caught by run() and the script ends normally
ExitCode(err) == IF err = "display" THEN 1 ELSE 0

\* exit status of a process killed by SIGABRT or SIGSEGV
CrashStatus == {134, 139}

\* ------------------------------------------------------ capture resources

\* no capture resource has been released
NoneReleased == [ctx |-> 0, dev |-> 0, devh |-> 0]

\* the three pointers with the release calls made so far
Camera(ctx, dev, devh, rel) == [ctx |-> ctx, dev |-> dev, devh |-> devh, released |-> rel]

\* the order in which cleanup() releases: uvc_close, uvc_unref_device, uvc_exit
ReleaseOrder == <<"devh", "dev", "ctx">>

\* the libuvc part of cleanup() up to its step number last: each non-null
\* pointer is released and set to None
Cleanup(cam, last) ==
    LET reached(r) == \E k \in 1..last : ReleaseOrder[k] = r IN
    [ctx |-> cam.ctx /\ ~reached("ctx"),
     dev |-> cam.dev /\ ~reached("dev"),
     devh |-> cam.devh /\ ~reached("devh"),
     released |-> [r \in {"ctx", "dev", "devh"} |->
                      IF reached(r) /\ cam[r] THEN cam.released[r] + 1
                      ELSE cam.released[r]]]

\* initialize_camera: the pointers and release calls it leaves behind.  A
\* failed uvc_find_device or uvc_open releases what was acquired and leaves
\* the pointers set; a refused format calls cleanup()
initialize_camera(outcome) ==
    CASE outcome = "uvc_find_device" ->
             Camera(TRUE, FALSE, FALSE, [ctx |-> 1, dev |-> 0, devh |-> 0])
      [] outcome = "uvc_open" ->
             Camera(TRUE, TRUE, FALSE, [ctx |-> 1, dev |-> 1, devh |-> 0])
      [] outcome = "uvc_get_stream_ctrl_format_size" ->
             Cleanup(Camera(TRUE, TRUE, TRUE, NoneReleased), 3)
      [] outcome = "ok" -> Camera(TRUE, TRUE, TRUE, NoneReleased)
      [] OTHER -> Camera(FALSE, FALSE, FALSE, NoneReleased)

\* steps of cleanup() that release a resource a second time.  libuvc frees
\* the resource on its first release, so the second call works on freed
\* memory: it may return, or the process is killed in it
RepeatedReleases(cam) ==
    { k \in 1..3 : cam[ReleaseOrder[k]] /\ cam.released[ReleaseOrder[k]] >= 1 }

\* ------------------------------------------------------ colormap catalog

\* a catalog table is an OpenCV colormap id or a NumPy array; of an array the
\* model keeps what the code looks at: shape, dtype and contiguity
Builtin(id) == [kind |-> "builtin", id |-> id, shape |-> <<>>, dtype |-> "int",
                contig |-> TRUE]
Ndarray(shape, dtype, contig) ==
    [kind |-> "ndarray", id |-> "array", shape |-> shape, dtype |-> dtype,
     contig |-> contig]
\* the call raised instead of returning an array
Raised == [kind |-> "raised", id |-> "none", shape |-> <<>>, dtype |-> "none",
           contig |-> FALSE]

Entry(name, table) == [name |-> name, table |-> table]

\* ndarray.size
RECURSIVE Size(_)
Size(shape) == IF shape = <<>> THEN 1 ELSE Head(shape) * Size(Tail(shape))

\* ndarray.reshape(shape): ValueError when the element counts differ
reshape(a, shape) ==
    IF a.kind # "ndarray" \/ Size(a.shape) # Size(shape) THEN Raised
    ELSE Ndarray(shape, a.dtype, a.contig)

\* np.ascontiguousarray
ascontiguousarray(a) == IF a.kind # "ndarray" THEN a ELSE Ndarray(a.shape, a.dtype, TRUE)

\* create_custom_lut(color, color_gradient_step): the two linspace segments,
\* their concatenation, the re-interpolation to 256 rows and the reshape
GRADIENT_STEP == 64
create_custom_lut_segment(color, color_gradient_step) ==
    Ndarray(<<256 - color_gradient_step, 1, 3>>, "uint8", TRUE)
create_custom_lut(color, color_gradient_step) ==
    IF color_gradient_step <= 0 \/ color_gradient_step >= 256 THEN Raised
    ELSE IF color \notin {"red", "green", "blue"} THEN Raised
    ELSE LET BLACK_TO_WHITE_STEP == 256 - color_gradient_step
             concatenated ==
                 IF BLACK_TO_WHITE_STEP <= 0 THEN 256
                 ELSE BLACK_TO_WHITE_STEP + color_gradient_step
             rows == IF concatenated # 256 THEN 256 ELSE concatenated
         IN  ascontiguousarray(
                 reshape(Ndarray(<<rows, 3>>, "uint8", TRUE), <<256, 1, 3>>))

BuiltinColormaps ==
    << Entry("HOT", Builtin("COLORMAP_HOT")),
       Entry("BONE", Builtin("COLORMAP_BONE")),
       Entry("COOL", Builtin("COLORMAP_COOL")),
       Entry("OCEAN", Builtin("COLORMAP_OCEAN")),
       Entry("VIRIDIS", Builtin("COLORMAP_VIRIDIS")) >>

GradientLuts ==
    << [color |-> "red", name |-> "RED_GRADIENT"],
       [color |-> "green", name |-> "GREEN_GRADIENT"],
       [color |-> "blue", name |-> "BLUE_GRADIENT"] >>

\* add_custom_luts: the first create_custom_lut that raises ends the additions
RECURSIVE add_custom_luts(_, _)
add_custom_luts(cat, todo) ==
    IF todo = <<>> THEN cat
    ELSE LET lut == create_custom_lut(Head(todo).color, GRADIENT_STEP) IN
         IF lut.kind = "raised" THEN cat
         ELSE add_custom_luts(Append(cat, Entry(Head(todo).name, lut)), Tail(todo))

\* self.colormaps when __init__ returns
InitialCatalog == add_custom_luts(BuiltinColormaps, GradientLuts)

\* self.colormaps: the catalog of __init__, then the tables loaded from files
colormaps == InitialCatalog \o loaded_luts

\* (self.colormap_index + 1) % len(self.colormaps)
NextColormapIndex_stick(i, n) == IF i + 1 < n THEN i + 1 ELSE i
NextColormapIndex(i, n) == (i + 1) % n

\* nothing colored yet
NoColor == [how |-> "none", of |-> 0, lut |-> "none"]

\* ------------------------------------------------------------- Init

\* the viewer object and the module globals before run() is called
Constructed ==
    /\ iter = 0
    /\ current_time = StartTime
    /\ is_running = TRUE
    /\ display_active = TRUE
    /\ stream_is_active = FALSE
    /\ uvc_devh = FALSE
    /\ cpu_governor \in {CPU_GOVERNOR_RUN, CPU_GOVERNOR_SAVE}
    /\ last_temp_shutdown_check_time = 0
    /\ last_button_a_time = 0
    /\ last_button_b_time = 0
    /\ cpu_temp = TempNone
    /\ shutdown_requested = FALSE
    /\ button_a_pressed = FALSE
    /\ button_b_pressed = FALSE
    /\ colormap_index = 0
    /\ frame_uyvy = NoFrame
    /\ displayed = 0
    /\ waited = "none"
    /\ frame_queue = <<>>
    /\ hw_streaming = FALSE
    /\ prod_pc = "idle"
    /\ cb_frame = NoFrame
    /\ cb_outcome = "none"
    /\ next_seq = 1
    /\ init_error = "none"
    /\ exit_code = <<>>
    /\ loaded_luts = <<>>
    /\ current_colormap = InitialCatalog[1]
    /\ frame_color = NoColor
    /\ validation_error = FALSE
    /\ uvc_ctx = FALSE
    /\ uvc_dev = FALSE
    /\ released = NoneReleased
    /\ dequeued = 0

\* no table, gradient or frame is being worked on
NoValues ==
    /\ lut_values = <<>>
    /\ lut_rows = <<>>
    /\ gradient_call = <<>>
    /\ custom_lut = <<>>
    /\ frame_gray = <<>>
    /\ frame_gray_agc = <<>>

\* run() is about to be called, in a directory without .lut files
Init ==
    /\ pc = "run"
    /\ backlight = FALSE
    /\ governor_request = "none"
    /\ lut_files = <<>>
    /\ scanned = <<>>
    /\ Constructed
    /\ NoValues

\* ------------------------------------------------- capture callback thread

\* libuvc invokes py_frame_callback with its next frame: the validity checks,
\* then frame_queue.full().  A rejected frame makes the callback return at once.
cb_invoke ==
    /\ hw_streaming
    /\ prod_pc = "idle"
    /\ next_seq <= MaxFrames
    /\ \E f \in FrameInputs(next_seq) :
         /\ IF ~FrameAccepted(f)
              THEN /\ prod_pc' = "idle"
                   /\ cb_frame' = NoFrame
                   /\ cb_outcome' = "discarded"
                   /\ next_seq' = next_seq
              ELSE /\ cb_frame' = f
                   /\ next_seq' = next_seq + 1
                   /\ prod_pc' = IF ~QueueFull(frame_queue) THEN "put" ELSE "evict"
                   /\ cb_outcome' = "none"
    /\ UNCHANGED <<mainVars, frame_queue, hw_streaming>>

\* frame_queue.put(copy): a blocking put, it waits for a free slot
cb_put ==
    /\ prod_pc \in {"put", "put_after_evict"}
    /\ Len(frame_queue) < BUF_SIZE
    /\ frame_queue' = Append(frame_queue, cb_frame)
    /\ prod_pc' = "idle"
    /\ cb_outcome' = "enqueued"
    /\ cb_frame' = NoFrame
    /\ UNCHANGED <<mainVars, hw_streaming, next_seq>>

\* frame_queue.get_nowait() of the full branch; QueueEmpty is passed over
cb_evict ==
    /\ prod_pc = "evict"
    /\ IF frame_queue = <<>>
         THEN /\ prod_pc' = "idle"
              /\ cb_outcome' = "dropped"
              /\ cb_frame' = NoFrame
              /\ frame_queue' = frame_queue
         ELSE /\ frame_queue' = Tail(frame_queue)
              /\ prod_pc' = "put_after_evict"
              /\ cb_outcome' = cb_outcome
              /\ cb_frame' = cb_frame
    /\ UNCHANGED <<mainVars, hw_streaming, next_seq>>

\* ------------------------------------------------------------ main thread

\* run() up to process_and_display: governor, display and buttons, the scan
\* for .lut files (none here), camera.  A display failure is exit(1), a camera
\* failure is a RuntimeError (after cleanup() when the format was refused);
\* both go to the finally of run()
run_init ==
    /\ pc = "run"
    /\ set_cpu_governor(CPU_GOVERNOR_RUN)
    /\ \E outcome \in InitOutcomes, lit \in BOOLEAN :
         /\ init_error' = IF outcome = "ok" THEN "none" ELSE outcome
         /\ backlight' = CASE outcome = "display" -> (lit /\ display_active)
                           [] outcome = "uvc_get_stream_ctrl_format_size" -> FALSE
                           [] OTHER -> display_active
         /\ uvc_devh' = initialize_camera(outcome).devh
         /\ uvc_dev' = initialize_camera(outcome).dev
         /\ uvc_ctx' = initialize_camera(outcome).ctx
         /\ released' = initialize_camera(outcome).released
         /\ pc' = IF outcome = "ok" THEN "start" ELSE "exit"
    /\ displayed' = 0
    /\ UNCHANGED <<exit_code, current_colormap, tableVars, dequeued>>
    /\ UNCHANGED <<iter, current_time, is_running, display_active, stream_is_active,
                   last_temp_shutdown_check_time, last_button_a_time,
                   last_button_b_time, cpu_temp, shutdown_requested,
                   button_a_pressed, button_b_pressed, colormap_index, frame_uyvy,
                   waited, prodVars, frame_queue, hw_streaming>>

\* process_and_display before its while loop
loop_setup ==
    /\ pc = "start"
    /\ UNCHANGED <<init_error, exit_code, current_colormap, quietVars>>
    /\ set_cpu_governor(GovernorFor(display_active))
    /\ \E start_ok \in BOOLEAN :
             /\ stream_is_active' =
                    IF display_active THEN StartStream(start_ok) ELSE stream_is_active
             /\ hw_streaming' =
                    IF display_active /\ StartCalls(start_ok) THEN TRUE ELSE hw_streaming
    /\ last_temp_shutdown_check_time' = current_time
    /\ last_button_a_time' = 0
    /\ last_button_b_time' = 0
    /\ pc' = "loop"
    /\ UNCHANGED <<iter, current_time, is_running, display_active, backlight, uvc_devh,
                   cpu_temp, shutdown_requested, button_a_pressed, button_b_pressed,
                   colormap_index, frame_uyvy, displayed, waited, prodVars,
                   frame_queue>>

\* the while test, current_time = time.time(), and the temperature check
loop_top ==
    /\ pc = "loop"
    /\ UNCHANGED <<init_error, exit_code, current_colormap, quietVars>>
    /\ IF ~is_running
         THEN /\ pc' = "exit"
              /\ UNCHANGED <<iter, current_time, is_running, cpu_temp,
                             shutdown_requested, last_temp_shutdown_check_time, waited>>
         ELSE /\ iter < MaxIter
              /\ iter' = iter + 1
              /\ waited' = "none"
              /\ \E d \in Deltas, t \in TempReadings :
                   LET ct == current_time + d IN
                   /\ current_time' = ct
                   /\ IF ThermalPollDue(ct, last_temp_shutdown_check_time)
                        THEN /\ cpu_temp' = t
                             /\ IF t.valid /\ OverThreshold(t)
                                  THEN /\ is_running' = FALSE
                                       /\ shutdown_requested' = TRUE
                                       /\ pc' = ThermalBreak
                                       /\ UNCHANGED last_temp_shutdown_check_time
                                  ELSE /\ last_temp_shutdown_check_time' = ct
                                       /\ pc' = "buttons"
                                       /\ UNCHANGED <<is_running, shutdown_requested>>
                        ELSE /\ pc' = "buttons"
                             /\ UNCHANGED <<cpu_temp, is_running, shutdown_requested,
                                            last_temp_shutdown_check_time>>
    /\ UNCHANGED <<display_active, stream_is_active, backlight, uvc_devh,
                   governor_request, cpu_governor, last_button_a_time,
                   last_button_b_time, button_a_pressed, button_b_pressed,
                   colormap_index, frame_uyvy, displayed, prodVars, frame_queue,
                   hw_streaming>>

\* the tests of the two handlers, each against its own timestamp
AcceptA_shared(a) ==
    /\ a
    /\ DebounceElapsed(current_time, last_button_a_time)
    /\ DebounceElapsed(current_time, last_button_b_time)
AcceptA(a) == a /\ DebounceElapsed(current_time, last_button_a_time)
AcceptB(b) == b /\ DebounceElapsed(current_time, last_button_b_time)

\* the button poll and both debounced handlers (A: next colormap, B: toggle)
\* uvc_stop_streaming returns once the callback thread has ended
poll_buttons ==
    /\ pc = "buttons"
    /\ UNCHANGED <<init_error, exit_code, quietVars>>
    /\ \E a \in BOOLEAN, b \in BOOLEAN, start_ok \in BOOLEAN :
         LET acceptA == AcceptA(a)
             acceptB == AcceptB(b)
             turnOn  == acceptB /\ ~display_active
             turnOff == acceptB /\ display_active
         IN  /\ button_a_pressed' = a
             /\ button_b_pressed' = b
             /\ last_button_a_time' = IF acceptA THEN current_time ELSE last_button_a_time
             /\ colormap_index' =
                    IF acceptA THEN NextColormapIndex(colormap_index, Len(colormaps))
                    ELSE colormap_index
             /\ current_colormap' =
                    IF acceptA
                      THEN colormaps[NextColormapIndex(colormap_index, Len(colormaps)) + 1]
                      ELSE current_colormap
             /\ last_button_b_time' = IF acceptB THEN current_time ELSE last_button_b_time
             /\ display_active' = IF acceptB THEN ~display_active ELSE display_active
             /\ backlight' = IF acceptB THEN ~display_active ELSE backlight
             /\ IF acceptB THEN set_cpu_governor(GovernorFor(~display_active))
                ELSE UNCHANGED <<governor_request, cpu_governor>>
             /\ (turnOff /\ StopCalls) => prod_pc = "idle"
             /\ stream_is_active' =
                    IF turnOn THEN StartStream(start_ok)
                    ELSE IF turnOff /\ StopCalls THEN FALSE
                    ELSE stream_is_active
             /\ hw_streaming' =
                    IF turnOn /\ StartCalls(start_ok) THEN TRUE
                    ELSE IF turnOff /\ StopCalls THEN FALSE
                    ELSE hw_streaming
             /\ frame_queue' =
                    IF turnOff /\ StopCalls THEN ClearQueue(frame_queue) ELSE frame_queue
             /\ displayed' = IF turnOff THEN 0 ELSE displayed
    /\ cpu_temp' = TempNone
    /\ pc' = "frame"
    /\ UNCHANGED <<iter, current_time, is_running, uvc_devh,
                   last_temp_shutdown_check_time, shutdown_requested,
                   frame_uyvy, waited, prodVars>>

\* what frame_queue.get leaves in the queue
AfterGet_keep(q) == q
AfterGet(q) == Tail(q)

\* frame_queue.get(block=True, timeout=0.5) returns a frame
get_frame ==
    /\ pc = "frame"
    /\ UNCHANGED <<init_error, exit_code, current_colormap, tableVars, uvcVars>>
    /\ display_active /\ stream_is_active
    /\ frame_queue # <<>>
    /\ frame_uyvy' = Head(frame_queue)
    /\ frame_queue' = AfterGet(frame_queue)
    /\ dequeued' = IF Head(frame_queue).seq > dequeued THEN Head(frame_queue).seq
                   ELSE dequeued
    /\ waited' = "get"
    /\ button_a_pressed' = FALSE
    /\ button_b_pressed' = FALSE
    /\ pc' = "render"
    /\ UNCHANGED <<iter, current_time, is_running, display_active, stream_is_active,
                   backlight, uvc_devh, governor_request, cpu_governor,
                   last_temp_shutdown_check_time, last_button_a_time,
                   last_button_b_time, cpu_temp, shutdown_requested,
                   colormap_index, displayed,
                   prodVars, hw_streaming>>

\* the timeout of frame_queue.get: a QueueEmpty that took the error path
get_timeout_error ==
    /\ pc = "frame"
    /\ UNCHANGED <<init_error, exit_code, current_colormap, quietVars>>
    /\ display_active /\ stream_is_active
    /\ frame_queue = <<>>
    /\ frame_uyvy' = NoFrame
    /\ waited' = "get"
    /\ is_running' = FALSE
    /\ button_a_pressed' = FALSE
    /\ button_b_pressed' = FALSE
    /\ pc' = "loop"
    /\ UNCHANGED <<iter, current_time, display_active, stream_is_active,
                   backlight, uvc_devh, governor_request, cpu_governor,
                   last_temp_shutdown_check_time, last_button_a_time,
                   last_button_b_time, cpu_temp, shutdown_requested,
                   colormap_index, displayed,
                   prodVars, frame_queue, hw_streaming>>

\* the queue stayed empty for the whole timeout: QueueEmpty, continue
get_timeout ==
    /\ pc = "frame"
    /\ UNCHANGED <<init_error, exit_code, current_colormap, quietVars>>
    /\ display_active /\ stream_is_active
    /\ frame_queue = <<>>
    /\ frame_uyvy' = NoFrame
    /\ waited' = "get"
    /\ button_a_pressed' = FALSE
    /\ button_b_pressed' = FALSE
    /\ pc' = "loop"
    /\ UNCHANGED <<iter, current_time, is_running, display_active, stream_is_active,
                   backlight, uvc_devh, governor_request, cpu_governor,
                   last_temp_shutdown_check_time, last_button_a_time,
                   last_button_b_time, cpu_temp, shutdown_requested,
                   colormap_index, displayed,
                   prodVars, frame_queue, hw_streaming>>

\* no dequeue, and no sleep either
no_frame_nosleep ==
    /\ pc = "frame"
    /\ UNCHANGED <<init_error, exit_code, current_colormap, quietVars>>
    /\ ~(display_active /\ stream_is_active)
    /\ frame_uyvy' = NoFrame
    /\ button_a_pressed' = FALSE
    /\ button_b_pressed' = FALSE
    /\ pc' = "loop"
    /\ UNCHANGED <<iter, current_time, is_running, display_active, stream_is_active,
                   backlight, uvc_devh, governor_request, cpu_governor,
                   last_temp_shutdown_check_time, last_button_a_time,
                   last_button_b_time, cpu_temp, shutdown_requested,
                   colormap_index, displayed, waited,
                   prodVars, frame_queue, hw_streaming>>

\* no dequeue: the display is off (sleep 0.25 s) or the stream is not active
no_frame ==
    /\ pc = "frame"
    /\ UNCHANGED <<init_error, exit_code, current_colormap, quietVars>>
    /\ ~(display_active /\ stream_is_active)
    /\ frame_uyvy' = NoFrame
    /\ waited' = IF ~display_active THEN "sleep" ELSE waited
    /\ button_a_pressed' = FALSE
    /\ button_b_pressed' = FALSE
    /\ pc' = "loop"
    /\ UNCHANGED <<iter, current_time, is_running, display_active, stream_is_active,
                   backlight, uvc_devh, governor_request, cpu_governor,
                   last_temp_shutdown_check_time, last_button_a_time,
                   last_button_b_time, cpu_temp, shutdown_requested,
                   colormap_index, displayed,
                   prodVars, frame_queue, hw_streaming>>

\* the dequeued frame is processed and shown on the LCD
render ==
    /\ pc = "render"
    /\ UNCHANGED <<init_error, exit_code, current_colormap, quietVars>>
    /\ display_active /\ frame_uyvy # NoFrame
    /\ displayed' = frame_uyvy.seq
    /\ frame_uyvy' = NoFrame
    /\ pc' = "loop"
    /\ UNCHANGED <<iter, current_time, is_running, display_active, stream_is_active,
                   backlight, uvc_devh, governor_request, cpu_governor,
                   last_temp_shutdown_check_time, last_button_a_time,
                   last_button_b_time, cpu_temp, shutdown_requested,
                   button_a_pressed, button_b_pressed, colormap_index,
                   waited, prodVars, frame_queue, hw_streaming>>

\* KeyboardInterrupt inside the loop's try: the rest of the iteration is
\* skipped, the flag is cleared and the while test ends the loop
keyboard_interrupt ==
    /\ pc \in LoopStages \ {"buttons"}
    /\ UNCHANGED <<init_error, exit_code, current_colormap, quietVars>>
    /\ is_running
    /\ is_running' = FALSE
    /\ button_a_pressed' = FALSE
    /\ button_b_pressed' = FALSE
    /\ pc' = "exit"
    /\ UNCHANGED <<iter, current_time, display_active, stream_is_active,
                   backlight, uvc_devh, governor_request, cpu_governor,
                   last_temp_shutdown_check_time, last_button_a_time,
                   last_button_b_time, cpu_temp, shutdown_requested,
                   colormap_index, frame_uyvy,
                   displayed, waited, prodVars, frame_queue, hw_streaming>>

\* an Exception raised while the frame is processed or drawn: logged, 0.1 s
\* sleep, next iteration
loop_error ==
    /\ pc = "render"
    /\ UNCHANGED <<init_error, exit_code, current_colormap, quietVars>>
    /\ display_active /\ frame_uyvy # NoFrame
    /\ frame_uyvy' = NoFrame
    /\ waited' = "error"
    /\ pc' = AfterLoopError
    /\ UNCHANGED <<iter, current_time, is_running, display_active, stream_is_active,
                   backlight, uvc_devh, governor_request, cpu_governor,
                   last_temp_shutdown_check_time, last_button_a_time,
                   last_button_b_time, cpu_temp, shutdown_requested,
                   button_a_pressed, button_b_pressed, colormap_index,
                   displayed, prodVars, frame_queue, hw_streaming>>

\* the finally of run(): run governor, then cleanup(); the process ends with
\* the status of a pending exit(1), else with 0.  If cleanup() releases a
\* capture resource a second time the process may be killed in that call,
\* before the pins and the display are dealt with
run_finally ==
    /\ pc = "exit"
    /\ UNCHANGED <<init_error, current_colormap, tableVars, dequeued>>
    /\ is_running' = FALSE
    /\ set_cpu_governor(CPU_GOVERNOR_RUN)
    /\ StopCalls => prod_pc = "idle"
    /\ stream_is_active' = IF StopCalls THEN FALSE ELSE stream_is_active
    /\ hw_streaming' = IF StopCalls THEN FALSE ELSE hw_streaming
    /\ frame_queue' = IF StopCalls THEN ClearQueue(frame_queue) ELSE frame_queue
    /\ LET cam == Camera(uvc_ctx, uvc_dev, uvc_devh, released) IN
       \E killed_at \in {0} \cup RepeatedReleases(cam) :
         LET after == Cleanup(cam, IF killed_at = 0 THEN 3 ELSE killed_at) IN
         /\ released' = after.released
         /\ uvc_devh' = after.devh
         /\ IF killed_at = 0
              THEN /\ uvc_dev' = after.dev
                   /\ uvc_ctx' = after.ctx
                   /\ backlight' = FALSE
                   /\ displayed' = 0
                   /\ exit_code' = <<ExitCode(init_error)>>
                   /\ pc' = "done"
              ELSE /\ uvc_dev' = (after.dev \/ ReleaseOrder[killed_at] = "dev")
                   /\ uvc_ctx' = (after.ctx \/ ReleaseOrder[killed_at] = "ctx")
                   /\ UNCHANGED <<backlight, displayed>>
                   /\ \E status \in CrashStatus : exit_code' = <<status>>
                   /\ pc' = "killed"
    /\ UNCHANGED <<iter, current_time, display_active,
                   last_temp_shutdown_check_time, last_button_a_time,
                   last_button_b_time, cpu_temp, shutdown_requested,
                   button_a_pressed, button_b_pressed, colormap_index, frame_uyvy,
                   waited, prodVars>>

Next ==
    \/ cb_invoke
    \/ cb_put
    \/ cb_evict
    \/ run_init
    \/ loop_setup
    \/ loop_top
    \/ poll_buttons
    \/ get_frame
    \/ get_timeout
    \/ no_frame
    \/ render
    \/ loop_error
    \/ keyboard_interrupt
    \/ run_finally

Spec == Init /\ [][Next]_vars

\* --------------------------------------------- the catalog and its files
\* load_custom_luts over the .lut files of the directory, then iterations of
\* the viewer loop in which a press of button A is taken

\* what the code reads of a .lut file: its name, whether the text is
\* bracketed, whether literal_eval parses it, whether it parses to a list,
\* whether every element is a 3-tuple, the number of elements, and the kind
\* of the components
LutFile(name, bracketed, parses, is_list, tuples3, length, values) ==
    [name |-> name, bracketed |-> bracketed, parses |-> parses, is_list |-> is_list,
     tuples3 |-> tuples3, length |-> length, values |-> values]

LutFileInputs ==
    { LutFile("IRON", TRUE, TRUE, TRUE, TRUE, 256, "byte"),
      LutFile("SHORT", TRUE, TRUE, TRUE, TRUE, 2, "byte"),
      LutFile("LONG", TRUE, TRUE, TRUE, TRUE, 257, "byte"),
      LutFile("EMPTY", TRUE, TRUE, TRUE, TRUE, 0, "byte"),
      LutFile("PLAIN", FALSE, TRUE, FALSE, TRUE, 256, "byte"),
      LutFile("BROKEN", TRUE, FALSE, TRUE, TRUE, 256, "byte"),
      LutFile("LISTS", TRUE, TRUE, FALSE, TRUE, 256, "byte"),
      LutFile("PAIRS", TRUE, TRUE, TRUE, FALSE, 256, "byte"),
      LutFile("WIDE", TRUE, TRUE, TRUE, TRUE, 256, "over"),
      LutFile("TEXT", TRUE, TRUE, TRUE, TRUE, 256, "text"),
      LutFile("DIGITS", TRUE, TRUE, TRUE, TRUE, 256, "digits") }

\* os.listdir('.'): the .lut files in some order, each name once
LutFileLists ==
    UNION { { fs \in [1..n -> LutFileInputs] :
                \A i, j \in 1..n : i # j => fs[i] # fs[j] } : n \in 0..MaxLutFiles }

\* the file is passed over: a continue, or an exception caught by the scan
Skipped == [kind |-> "skipped", id |-> "none", shape |-> <<>>, dtype |-> "none",
            contig |-> FALSE]

\* np.array(lut_values, dtype=np.uint8): shape (N, 3), or (0,) of an empty
\* list; text components raise ValueError unless they are strings of digits,
\* which are converted; components outside 0..255 wrap around or raise
\* OverflowError, depending on the NumPy version
ArrayOutcomes(f) ==
    LET a == IF f.length = 0 THEN Ndarray(<<0>>, "uint8", TRUE)
             ELSE Ndarray(<<f.length, 3>>, "uint8", TRUE)
    IN  CASE f.values = "text" -> {Raised}
          [] f.values = "over" -> {a, Raised}
          [] OTHER -> {a}

\* cv2.resize(image, (width, height)) of a rows x cols x channels image
resize(a, width, height) ==
    IF a.kind # "ndarray" THEN Raised
    ELSE Ndarray(<<height, width, a.shape[3]>>, a.dtype, TRUE)

\* the table made of lut_array, or Skipped
LoadedTable(lut_array) ==
    IF lut_array.kind # "ndarray" THEN Skipped
    ELSE LET original_length == lut_array.shape[1] IN
         IF original_length = 0 THEN Skipped
         ELSE LET lut_final ==
                      IF original_length = 256
                        THEN reshape(lut_array, <<256, 1, 3>>)
                        ELSE ascontiguousarray(
                                 reshape(resize(reshape(lut_array,
                                                        <<original_length, 1, 3>>),
                                                1, 256),
                                         <<256, 1, 3>>))
                  is_contig_ok == IF original_length # 256 THEN lut_final.contig
                                  ELSE TRUE
              IN  IF lut_final.kind # "ndarray" THEN Skipped
                  ELSE IF lut_final.shape = <<256, 1, 3>> /\ is_contig_ok
                         THEN lut_final
                         ELSE Skipped

\* the body of the scan for one file
LoadOutcomes_nocheck(f) == { LoadedTable(a) : a \in ArrayOutcomes(f) }
LoadOutcomes(f) ==
    IF ~f.bracketed \/ ~f.parses \/ ~f.is_list \/ ~f.tuples3 THEN {Skipped}
    ELSE { LoadedTable(a) : a \in ArrayOutcomes(f) }

\* left alone by the scan and by the colormap handler
catalogFixed ==
    <<is_running, display_active, stream_is_active, backlight, uvc_devh,
      governor_request, cpu_governor, last_temp_shutdown_check_time,
      last_button_b_time, cpu_temp, shutdown_requested, button_a_pressed,
      button_b_pressed, frame_uyvy, displayed, waited, init_error, exit_code,
      frame_color, validation_error, valueVars, uvcVars, dequeued, prodVars,
      frame_queue, hw_streaming>>

\* run() after initialize_display_and_buttons, entering load_custom_luts
InitCatalog ==
    /\ pc = "load"
    /\ backlight = TRUE
    /\ governor_request = CPU_GOVERNOR_RUN
    /\ lut_files \in LutFileLists
    /\ scanned = <<>>
    /\ Constructed
    /\ NoValues

\* one pass of the for loop of load_custom_luts
load_lut_file ==
    /\ pc = "load"
    /\ lut_files # <<>>
    /\ \E t \in LoadOutcomes(Head(lut_files)) :
         loaded_luts' = IF t.kind = "ndarray"
                          THEN Append(loaded_luts, Entry(Head(lut_files).name, t))
                          ELSE loaded_luts
    /\ lut_files' = Tail(lut_files)
    /\ scanned' = Append(scanned, Head(lut_files))
    /\ UNCHANGED <<pc, iter, current_time, last_button_a_time, colormap_index,
                   current_colormap, catalogFixed>>

\* the scan is over; the viewer goes on to its loop
load_finished ==
    /\ pc = "load"
    /\ lut_files = <<>>
    /\ pc' = "ready"
    /\ UNCHANGED <<iter, current_time, last_button_a_time, colormap_index,
                   current_colormap, loaded_luts, lut_files, scanned, catalogFixed>>

\* an iteration of the loop in which button A is pressed and the press taken
accept_button_a ==
    /\ pc = "ready"
    /\ iter <= Len(colormaps)
    /\ \E d \in Deltas :
         /\ DebounceElapsed(current_time + d, last_button_a_time)
         /\ current_time' = current_time + d
         /\ last_button_a_time' = current_time + d
    /\ iter' = iter + 1
    /\ colormap_index' = NextColormapIndex(colormap_index, Len(colormaps))
    /\ current_colormap' = colormaps[NextColormapIndex(colormap_index, Len(colormaps)) + 1]
    /\ UNCHANGED <<pc, loaded_luts, lut_files, scanned, catalogFixed>>

NextCatalog ==
    \/ load_lut_file
    \/ load_finished
    \/ accept_button_a

SpecCatalog == InitCatalog /\ [][NextCatalog]_vars

\* ------------------------------------------------- the colormap step
\* the part of an iteration that colors and draws a dequeued frame, as a
\* function of the selected table; the selected array ranges over array
\* descriptions the checks of the step tell apart, not only over those that
\* load_custom_luts lets into the catalog

\* frame_gray_agc.dtype: cvtColor and convertScaleAbs both give 8-bit images
GRAY_DTYPE == "uint8"

\* the checks made before a custom table is handed to cv2.applyColorMap
LutPrecondition_shapeonly(t) == t.shape = <<256, 1, 3>>
LutPrecondition(t) ==
    LET is_correct_shape == t.shape = <<256, 1, 3>>
        is_uint8 == t.dtype = "uint8"
        is_contig == t.contig
        is_total_768 == Size(t.shape) = 768
        is_input_uint8 == GRAY_DTYPE = "uint8"
    IN  is_correct_shape /\ is_uint8 /\ is_contig /\ is_total_768 /\ is_input_uint8

\* how frame_color is made of frame number seq and what is logged with it:
\* the table applied, or the gray image after a failed validation or after a
\* cv2.error of applyColorMap; a built-in colormap is applied by its id
ColorOutcomes(selected, seq) ==
    IF selected.table.kind = "ndarray"
      THEN IF LutPrecondition(selected.table)
             THEN { [how |-> "lut", of |-> seq, lut |-> selected.name, error |-> "none"],
                    [how |-> "gray", of |-> seq, lut |-> "none", error |-> "cv2.error"] }
             ELSE { [how |-> "gray", of |-> seq, lut |-> "none", error |-> "validation"] }
      ELSE { [how |-> "builtin", of |-> seq, lut |-> selected.name, error |-> "none"] }

\* arrays a selected custom table is drawn from
RenderTables ==
    { Ndarray(<<256, 1, 3>>, "uint8", TRUE),
      Ndarray(<<256, 3>>, "uint8", TRUE),
      Ndarray(<<255, 1, 3>>, "uint8", TRUE),
      Ndarray(<<256, 1, 4>>, "uint8", TRUE),
      Ndarray(<<256, 3, 1>>, "uint8", TRUE),
      Ndarray(<<256, 1, 3>>, "float32", TRUE),
      Ndarray(<<256, 1, 3>>, "uint8", FALSE) }

\* an iteration in RUNNING that has just dequeued a frame
InitRender ==
    /\ pc = "render"
    /\ iter = 1
    /\ current_time = StartTime + 1
    /\ is_running = TRUE
    /\ display_active = TRUE
    /\ stream_is_active = TRUE
    /\ backlight = TRUE
    /\ uvc_devh = TRUE
    /\ governor_request = CPU_GOVERNOR_RUN
    /\ cpu_governor \in {CPU_GOVERNOR_RUN, CPU_GOVERNOR_SAVE}
    /\ last_temp_shutdown_check_time = StartTime
    /\ last_button_a_time = 0
    /\ last_button_b_time = 0
    /\ cpu_temp = TempNone
    /\ shutdown_requested = FALSE
    /\ button_a_pressed = FALSE
    /\ button_b_pressed = FALSE
    /\ \E s \in 1..MaxFrames :
         /\ frame_uyvy = Frame(CAM_WIDTH, CAM_HEIGHT, CAM_WIDTH * CAM_HEIGHT * 2, s)
         /\ next_seq = s + 1
         /\ dequeued = s
    /\ uvc_ctx = TRUE
    /\ uvc_dev = TRUE
    /\ released = NoneReleased
    /\ displayed = 0
    /\ waited = "get"
    /\ frame_queue = <<>>
    /\ hw_streaming = TRUE
    /\ prod_pc = "idle"
    /\ cb_frame = NoFrame
    /\ cb_outcome = "enqueued"
    /\ init_error = "none"
    /\ exit_code = <<>>
    /\ lut_files = <<>>
    /\ scanned = <<>>
    /\ loaded_luts \in {<<>>} \cup { <<Entry("CUSTOM", t)>> : t \in RenderTables }
    /\ colormap_index \in 0..(Len(colormaps) - 1)
    /\ current_colormap = colormaps[colormap_index + 1]
    /\ frame_color = NoColor
    /\ validation_error = FALSE
    /\ NoValues

\* left alone by the colormap step and the drawing
renderFixed ==
    <<iter, current_time, is_running, display_active, stream_is_active, backlight,
      uvc_devh, governor_request, cpu_governor, last_temp_shutdown_check_time,
      last_button_a_time, last_button_b_time, cpu_temp, shutdown_requested,
      button_a_pressed, button_b_pressed, colormap_index, waited, init_error,
      exit_code, loaded_luts, current_colormap, lut_files, scanned, valueVars,
      uvcVars, dequeued, prodVars,
      frame_queue, hw_streaming>>

\* gray conversion, gain, and the colormap or custom table
render_colormap ==
    /\ pc = "render"
    /\ display_active /\ frame_uyvy # NoFrame
    /\ \E o \in ColorOutcomes(current_colormap, frame_uyvy.seq) :
         /\ frame_color' = [how |-> o.how, of |-> o.of, lut |-> o.lut]
         /\ validation_error' = (o.error = "validation")
    /\ pc' = "blit"
    /\ UNCHANGED <<frame_uyvy, displayed, renderFixed>>

\* resize, RGB conversion and self.disp.image
render_blit ==
    /\ pc = "blit"
    /\ displayed' = frame_color.of
    /\ frame_uyvy' = NoFrame
    /\ pc' = "loop"
    /\ UNCHANGED <<frame_color, validation_error, renderFixed>>

NextRender ==
    \/ render_colormap
    \/ render_blit

SpecRender == InitRender /\ [][NextRender]_vars

\* ------------------------------------------- the entries of a loaded table
\* one pass of the scan of load_custom_luts with the values of the table: the
\* parsed list is a sequence of 3-tuples of integers

MaxLenDelta == 1     \* table lengths explored around 0 and around 256

Min(a, b) == IF a < b THEN a ELSE b

TableLengths == (0..(MaxLenDelta + 2)) \cup ((256 - MaxLenDelta)..(256 + MaxLenDelta))

\* the list of a file: n 3-tuples, first components rising by slope from base
TableRows(n, base, slope) ==
    [i \in 1..n |-> <<base + slope * (i - 1), 255 - ((i - 1) % 256), (7 * i) % 256>>]

TableInputs ==
    { TableRows(n, base, slope) :
          n \in TableLengths, base \in {0, 50, 100, 200, 250}, slope \in {0, 1, 2} }

\* every component is a byte
InByteRange(values) ==
    \A i \in 1..Len(values) : \A c \in 1..3 : values[i][c] \in 0..255

\* an array of the given rows, or the call raised
Rows(rows) == [ok |-> TRUE, rows |-> rows]
NoRows == [ok |-> FALSE, rows |-> <<>>]

\* np.array(lut_values, dtype=np.uint8): a component outside 0..255 is stored
\* modulo 256 or raises OverflowError, depending on the NumPy version
np_array_uint8(values) ==
    LET wrapped == [i \in 1..Len(values) |-> [c \in 1..3 |-> values[i][c] % 256]]
    IN  IF InByteRange(values) THEN {Rows(wrapped)} ELSE {Rows(wrapped), NoRows}

\* reshape((n, 1, 3)) of rows of 3 components: the rows or ValueError
reshape_rows(a, n) == IF a.ok /\ Len(a.rows) = n THEN a ELSE NoRows

\* cv2.resize(lut_image, (1, height), interpolation=cv2.INTER_LINEAR) of an
\* n x 1 x 3 image: row y of the result is taken at (y + 0.5) * n / height - 0.5
\* in the source, clamped to its first and last row, and mixed linearly of
\* the two rows around that place, rounded to the nearest integer
resize_rows_keep(a, height) == a
resize_rows(a, height) ==
    IF ~a.ok \/ Len(a.rows) = 0 THEN NoRows
    ELSE LET n == Len(a.rows)
             at(y) == (2 * y + 1) * n - height       \* in units of 1/(2 * height)
             sy(y) == IF at(y) < 0 THEN 0 ELSE Min(at(y) \div (2 * height), n - 1)
             fy(y) == IF at(y) < 0 \/ at(y) \div (2 * height) >= n - 1 THEN 0
                      ELSE at(y) % (2 * height)
             mix(lo, hi, f) == (lo * (2 * height - f) + hi * f + height) \div (2 * height)
         IN  Rows([y \in 1..height |->
                     [c \in 1..3 |-> mix(a.rows[sy(y - 1) + 1][c],
                                         a.rows[Min(sy(y - 1) + 1, n - 1) + 1][c],
                                         fy(y - 1))]])

\* lines 306-357 on values: the array, the empty test, reshape or resize, and
\* the final shape test; NoRows when the file is passed over
LoadedRows(lut_array) ==
    IF ~lut_array.ok THEN NoRows
    ELSE LET original_length == Len(lut_array.rows) IN
         IF original_length = 0 THEN NoRows
         ELSE IF original_length = 256 THEN reshape_rows(lut_array, 256)
         ELSE reshape_rows(resize_rows(reshape_rows(lut_array, original_length), 256),
                           256)

\* after initialize_display_and_buttons, the scan has read and parsed one file
InitTable ==
    /\ pc = "table"
    /\ backlight = TRUE
    /\ governor_request = CPU_GOVERNOR_RUN
    /\ lut_files = <<>>
    /\ scanned = <<>>
    /\ Constructed
    /\ lut_values \in TableInputs
    /\ lut_rows = <<>>
    /\ gradient_call = <<>>
    /\ custom_lut = <<>>
    /\ frame_gray = <<>>
    /\ frame_gray_agc = <<>>

\* the rest of the pass: the table is appended or the file passed over
load_table ==
    /\ pc = "table"
    /\ \E a \in np_array_uint8(lut_values) :
         LET lut_final == LoadedRows(a) IN
         /\ lut_rows' = lut_final.rows
         /\ loaded_luts' =
                IF lut_final.ok
                  THEN Append(loaded_luts,
                              Entry("TABLE", Ndarray(<<Len(lut_final.rows), 1, 3>>,
                                                     "uint8", TRUE)))
                  ELSE loaded_luts
    /\ pc' = "table_done"
    /\ UNCHANGED <<iter, current_time, last_button_a_time, colormap_index,
                   current_colormap, lut_files, scanned, lut_values, gradient_call,
                   custom_lut, frame_gray, frame_gray_agc>>
    /\ UNCHANGED <<is_running, display_active, stream_is_active, backlight, uvc_devh,
                   governor_request, cpu_governor, last_temp_shutdown_check_time,
                   last_button_b_time, cpu_temp, shutdown_requested, button_a_pressed,
                   button_b_pressed, frame_uyvy, displayed, waited, init_error,
                   exit_code, frame_color, validation_error, uvcVars, dequeued,
                   prodVars, frame_queue, hw_streaming>>

SpecTable == InitTable /\ [][load_table]_vars

\* ------------------------------------------- the entries of a gradient
\* create_custom_lut with the values of its table

\* np.linspace(start, stop, num).astype(np.uint8) of two 3-tuples: num rows
\* from start to stop, the end point included, a single row being start; the
\* fractions are cut off.  The division is taken exact.
linspace_open(start, stop, num) ==
    [i \in 1..num |-> [c \in 1..3 |->
        ((start[c] * num + (i - 1) * (stop[c] - start[c])) \div num) % 256]]
linspace(start, stop, num) ==
    [i \in 1..num |-> [c \in 1..3 |->
        IF num = 1 THEN start[c] % 256
        ELSE ((start[c] * (num - 1) + (i - 1) * (stop[c] - start[c]))
                  \div (num - 1)) % 256]]

\* the two ends of the colour segment, in the channel order of the code
gradient_colors(color) ==
    CASE color = "red" -> << <<64, 0, 0>>, <<255, 0, 0>> >>
      [] color = "green" -> << <<0, 64, 0>>, <<0, 255, 0>> >>
      [] color = "blue" -> << <<0, 0, 64>>, <<0, 0, 255>> >>

\* custom_colors of create_custom_lut, for arguments it does not refuse
custom_colors(color, color_gradient_step) ==
    LET BLACK_TO_WHITE_STEP == 256 - color_gradient_step
        ends == gradient_colors(color)
        concatenated ==
            IF BLACK_TO_WHITE_STEP <= 0 THEN linspace(ends[1], ends[2], 256)
            ELSE linspace(<<0, 0, 0>>, <<255, 255, 255>>, BLACK_TO_WHITE_STEP)
                     \o linspace(ends[1], ends[2], color_gradient_step)
    IN  IF Len(concatenated) # 256
          THEN linspace(concatenated[1], concatenated[Len(concatenated)], 256)
          ELSE concatenated

GradientColors == {"red", "green", "blue", "purple"}
GradientSteps == (-1)..257

\* a caller is about to call create_custom_lut(color, color_gradient_step)
InitGradient ==
    /\ pc = "gradient"
    /\ backlight = FALSE
    /\ governor_request = "none"
    /\ lut_files = <<>>
    /\ scanned = <<>>
    /\ Constructed
    /\ lut_values = <<>>
    /\ lut_rows = <<>>
    /\ gradient_call \in GradientColors \X GradientSteps
    /\ custom_lut = <<>>
    /\ frame_gray = <<>>
    /\ frame_gray_agc = <<>>

\* the call: the table with its rows, or ValueError
call_create_custom_lut ==
    /\ pc = "gradient"
    /\ LET lut == create_custom_lut(gradient_call[1], gradient_call[2]) IN
       custom_lut' =
           [table |-> lut,
            rows |-> IF lut.kind = "raised" THEN <<>>
                     ELSE custom_colors(gradient_call[1], gradient_call[2])]
    /\ pc' = "gradient_done"
    /\ UNCHANGED <<iter, current_time, last_button_a_time, colormap_index,
                   current_colormap, loaded_luts, lut_files, scanned, lut_values,
                   lut_rows, gradient_call, frame_gray, frame_gray_agc>>
    /\ UNCHANGED <<is_running, display_active, stream_is_active, backlight, uvc_devh,
                   governor_request, cpu_governor, last_temp_shutdown_check_time,
                   last_button_b_time, cpu_temp, shutdown_requested, button_a_pressed,
                   button_b_pressed, frame_uyvy, displayed, waited, init_error,
                   exit_code, frame_color, validation_error, uvcVars, dequeued,
                   prodVars, frame_queue, hw_streaming>>

SpecGradient == InitGradient /\ [][call_create_custom_lut]_vars

\* ------------------------------------------------------- the gain step
\* lines 547-556 on the pixels of frame_gray, a sequence of 8-bit intensities

MaxPixels == 3       \* pixels of a frame

PixelValues == {0, 50, 100, 125, 200, 255}

GrayFrames == [1..MaxPixels -> PixelValues]

\* cv2.minMaxLoc
min_val(frame) == CHOOSE m \in {frame[i] : i \in 1..Len(frame)} :
                      \A i \in 1..Len(frame) : m <= frame[i]
max_val(frame) == CHOOSE m \in {frame[i] : i \in 1..Len(frame)} :
                      \A i \in 1..Len(frame) : m >= frame[i]

\* alpha = 255.0 / (max_val - min_val) and beta = -min_val * alpha, as
\* fractions <<numerator, denominator>> over the same denominator
alpha(mn, mx) == <<255, mx - mn>>
beta_zero(mn, mx) == <<0, mx - mn>>
beta(mn, mx) == <<(0 - mn) * alpha(mn, mx)[1], alpha(mn, mx)[2]>>

\* cv2.convertScaleAbs of one pixel: |v * alpha + beta| rounded to the nearest
\* integer and saturated at 255.  The product is computed in floating point,
\* so a value half way between two integers goes up for the pixel values in
\* up and down for the others.
convertScaleAbs(v, a, b, up) ==
    LET num == v * a[1] + b[1]
        mag == IF num < 0 THEN 0 - num ELSE num
        q == mag \div a[2]
        r == mag % a[2]
        rounded == IF 2 * r < a[2] THEN q
                   ELSE IF 2 * r > a[2] THEN q + 1
                   ELSE IF v \in up THEN q + 1 ELSE q
    IN  Min(rounded, 255)

\* frame_gray_agc and the alpha computed for it, <<>> when none was
AutoGain(frame, up) ==
    LET mn == min_val(frame)
        mx == max_val(frame)
    IN  IF mx > mn
          THEN [pixels |-> [i \in 1..Len(frame) |->
                               convertScaleAbs(frame[i], alpha(mn, mx), beta(mn, mx), up)],
                alpha |-> alpha(mn, mx)]
          ELSE [pixels |-> frame, alpha |-> <<>>]

\* an iteration in RUNNING that has dequeued a frame and made it gray
InitGain ==
    /\ InitRender
    /\ loaded_luts = <<>>
    /\ colormap_index = 0

\* the gain step of the iteration
auto_gain ==
    /\ pc = "render"
    /\ display_active /\ frame_uyvy # NoFrame
    /\ frame_gray_agc = <<>>
    /\ \E frame \in GrayFrames, up \in SUBSET PixelValues :
         /\ frame_gray' = frame
         /\ frame_gray_agc' = AutoGain(frame, up)
    /\ pc' = "colormap"
    /\ UNCHANGED <<frame_uyvy, displayed, frame_color, validation_error, lut_values,
                   lut_rows, gradient_call, custom_lut>>
    /\ UNCHANGED <<iter, current_time, is_running, display_active, stream_is_active,
                   backlight, uvc_devh, governor_request, cpu_governor,
                   last_temp_shutdown_check_time, last_button_a_time,
                   last_button_b_time, cpu_temp, shutdown_requested, button_a_pressed,
                   button_b_pressed, colormap_index, waited, init_error, exit_code,
                   loaded_luts, current_colormap, lut_files, scanned, uvcVars,
                   dequeued, prodVars, frame_queue, hw_streaming>>

SpecGain == InitGain /\ [][auto_gain]_vars

\* ------------------------------------------------------------- claims

WellFormed(f) ==
    /\ f.ptr /\ f.data
    /\ f.width = 160 /\ f.height = 120
    /\ f.data_bytes = 160 * 120 * 2

\* C1: a valid frame delivered while the queue holds BUF_SIZE frames always ends
\* up in the queue: the callback that found the queue full evicts the oldest
\* frame and then puts its own frame, and it is never its own frame that is lost.
C1_FullQueueKeepsNewFrame ==
    [][ /\ (prod_pc = "evict" /\ prod_pc' # "evict")
            => (prod_pc' = "put_after_evict" /\ frame_queue' = Tail(frame_queue))
        /\ (prod_pc = "put_after_evict" /\ prod_pc' # "put_after_evict")
            => (frame_queue' # <<>> /\ frame_queue'[Len(frame_queue')] = cb_frame)
      ]_vars

\* C6: every frame held in the queue, and every frame a callback is about to
\* put, is 160 x 120 with 160*120*2 bytes and non-null; an invocation that is
\* discarded leaves the queue as it was.
C6_OnlyWellFormedFramesQueued ==
    /\ [](\A i \in 1..Len(frame_queue) : WellFormed(frame_queue[i]))
    /\ [](prod_pc # "idle" => WellFormed(cb_frame))
    /\ [][(cb_outcome' = "discarded" /\ cb_outcome # "discarded")
             => frame_queue' = frame_queue]_vars

\* C6 witness: a malformed frame was discarded while a frame is buffered
C6_Witness == cb_outcome = "discarded" /\ frame_queue # <<>>

\* C7: neither side is ever stuck on the queue: a callback that is at a put has
\* a free slot, and the main thread at its dequeue can always go on (with a
\* frame, by timeout, or without dequeuing).
C7_NoQueueOperationBlocks ==
    /\ prod_pc \in {"put", "put_after_evict"} => ENABLED cb_put
    /\ pc = "frame" => ENABLED (get_frame \/ get_timeout \/ no_frame)

\* C7 witness: the callback found the queue full, evicted, and is at its put
C7_Witness == prod_pc = "put_after_evict" /\ Len(frame_queue) = BUF_SIZE - 1

\* spec 3, OperatingMode, read off the two flags of the viewer
Mode ==
    IF ~is_running THEN "SHUTTING_DOWN"
    ELSE IF display_active THEN "RUNNING" ELSE "POWERSAVE"

\* an accepted press of button B in this step (the handler stamps its time)
ToggleStep == pc = "buttons" /\ pc' = "frame" /\ last_button_b_time' # last_button_b_time

\* C2: once a temperature check has read more than 75.0 C, whatever the mode
\* was, the running flag is cleared, the shutdown request has been issued and
\* the main thread has left the loop for good (no button or frame handling).
C2_OverheatShutsDown ==
    (cpu_temp.valid /\ cpu_temp.milli > 75 * 1000)
        => (~is_running /\ shutdown_requested /\ pc \in {"exit", "done"})

\* C2 witness: the overheat was read while the viewer was in POWERSAVE
C2_Witness == shutdown_requested /\ ~display_active /\ cpu_temp.milli > 75 * 1000

\* C3 as claimed: an accepted toggle in RUNNING stops the stream and enters
\* POWERSAVE, and an accepted toggle in POWERSAVE restarts the stream and
\* enters RUNNING, so that every second toggle ends in RUNNING with the
\* stream active.
C3_ToggleRestartsStream ==
    [][ToggleStep =>
          IF display_active
            THEN ~display_active' /\ ~stream_is_active'
            ELSE display_active' /\ stream_is_active'
      ]_vars

\* C3 amended: an accepted toggle in RUNNING stops the stream and enters
\* POWERSAVE; an accepted toggle in POWERSAVE enters RUNNING and calls
\* uvc_start_streaming, and the stream is active afterwards exactly when that
\* call succeeded.
C3_ToggleAttemptsRestart ==
    [][ToggleStep =>
          IF display_active
            THEN ~display_active' /\ ~stream_is_active' /\ ~hw_streaming'
            ELSE display_active' /\ (stream_is_active' <=> hw_streaming')
      ]_vars

\* C3 witness: back in RUNNING with the stream active after two accepted toggles
C3_Witness ==
    /\ pc = "frame" /\ button_b_pressed /\ last_button_b_time = current_time
    /\ display_active /\ stream_is_active /\ hw_streaming
    /\ iter >= 2

\* C4 as claimed: in the render loop, RUNNING means stream active, backlight
\* on and the run governor requested, also after a failed stream start.
C4_RunningHasStream ==
    (pc \in LoopStages /\ Mode = "RUNNING")
        => (stream_is_active /\ backlight /\ governor_request = "ondemand")

\* C4 amended: in the render loop, RUNNING means backlight on and the run
\* governor requested; the stream is flagged active exactly when the device
\* is streaming, which it is not after a failed uvc_start_streaming.
C4_RunningBacklightGovernor ==
    (pc \in LoopStages /\ Mode = "RUNNING")
        => (backlight /\ governor_request = "ondemand"
            /\ (stream_is_active <=> hw_streaming))

\* C4 witness: RUNNING again after a toggle whose stream start failed
C4_Witness ==
    /\ pc = "frame" /\ Mode = "RUNNING" /\ last_button_b_time = current_time
    /\ ~stream_is_active /\ backlight

\* C5: in POWERSAVE the stream is stopped, the backlight is off, the
\* power-saving governor is the one requested, the queue is empty and no
\* callback is in progress that could fill it.
C5_PowersaveQuiescent ==
    Mode = "POWERSAVE"
        => /\ ~stream_is_active /\ ~hw_streaming
           /\ ~backlight
           /\ governor_request = "powersave"
           /\ frame_queue = <<>>
           /\ prod_pc = "idle"

\* C5 witness: POWERSAVE entered after the callback had enqueued a frame
C5_Witness == Mode = "POWERSAVE" /\ cb_outcome = "enqueued" /\ pc = "frame"

\* C8: when the viewer is RUNNING with the stream active and the dequeue ends
\* with the queue still empty, the main thread goes to the next iteration with
\* no frame: nothing is shown, no flag, mode or colormap changes, no shutdown.
C8_TimeoutIsNotAnError ==
    [][ ( /\ pc = "frame" /\ pc' \notin {"frame", "exit"}
          /\ display_active /\ stream_is_active /\ frame_queue = <<>> )
        => ( /\ pc' = "loop"
             /\ frame_uyvy' = NoFrame
             /\ waited' = "get"
             /\ displayed' = displayed
             /\ UNCHANGED <<is_running, display_active, stream_is_active, backlight,
                            colormap_index, shutdown_requested, frame_queue>> )
      ]_vars

\* C8 witness: an iteration in RUNNING ended by the timeout, nothing shown yet
C8_Witness ==
    /\ pc = "loop" /\ waited = "get" /\ displayed = 0
    /\ Mode = "RUNNING" /\ stream_is_active /\ iter >= 1

\* C9: after the thermal shutdown was triggered no step changes the colormap
\* index or the button timestamps, toggles the display, starts the stream,
\* dequeues a frame or shows one (the display can only be blanked).
C9_ShutdownIsTerminal ==
    [][ shutdown_requested
        => ( /\ UNCHANGED <<colormap_index, display_active, last_button_a_time,
                            last_button_b_time, frame_uyvy, shutdown_requested>>
             /\ is_running' = FALSE
             /\ stream_is_active' => stream_is_active
             /\ hw_streaming' => hw_streaming
             /\ displayed' \in {displayed, 0} )
      ]_vars

\* C9 witness: run() finished after a thermal shutdown that found the stream on
C9_Witness == shutdown_requested /\ pc = "done" /\ next_seq > 1

\* C10: a press of button A seen no more than 3 ticks (300 ms) after the last
\* accepted one changes nothing; seen later than that it advances the colormap
\* by exactly one and becomes the last accepted press.  So a press 1 tick
\* after an accepted one is dropped and a press 4 ticks after it is taken.
C10_DebounceA ==
    [][ (pc = "buttons" /\ pc' = "frame")
        => LET gap == current_time - last_button_a_time IN
           /\ (button_a_pressed' /\ gap > 3)
                => /\ colormap_index' = (colormap_index + 1) % NumColormaps
                   /\ colormap_index' # colormap_index
                   /\ last_button_a_time' = current_time
           /\ (button_a_pressed' /\ gap <= 3)
                => UNCHANGED <<colormap_index, last_button_a_time>>
           /\ ~button_a_pressed'
                => UNCHANGED <<colormap_index, last_button_a_time>>
           /\ (button_a_pressed' /\ gap = 1) => colormap_index' = colormap_index
           /\ (button_a_pressed' /\ gap = 4) => colormap_index' # colormap_index
      ]_vars

\* C10 witness: two presses 100 ms apart gave one advance
C10_Witness ==
    /\ pc = "frame" /\ button_a_pressed
    /\ current_time - last_button_a_time = 1
    /\ colormap_index = 1

\* C11: the two debounce windows are independent.  In one button poll a press
\* of A is taken exactly when A's own window has elapsed, and a press of B
\* exactly when B's own has; when B is not taken its timestamp, the display
\* state, the stream state and the backlight stay as they were whatever
\* happened to A, and when A is not taken its timestamp and the colormap
\* selection stay as they were whatever happened to B.
C11_IndependentDebounce ==
    [][ (pc = "buttons" /\ pc' = "frame")
        => LET takenA == button_a_pressed' /\ current_time - last_button_a_time > 3
               takenB == button_b_pressed' /\ current_time - last_button_b_time > 3
           IN  /\ takenA <=> (last_button_a_time' = current_time
                              /\ colormap_index' # colormap_index)
               /\ takenB <=> (last_button_b_time' = current_time
                              /\ display_active' # display_active)
               /\ ~takenB => UNCHANGED <<last_button_b_time, display_active,
                                         stream_is_active, hw_streaming, backlight>>
               /\ ~takenA => UNCHANGED <<last_button_a_time, colormap_index,
                                         current_colormap>>
      ]_vars

\* C11 witness: a press of A taken 100 ms after a press of B was taken
C11_Witness ==
    /\ pc = "frame" /\ button_a_pressed /\ ~button_b_pressed
    /\ last_button_a_time = current_time
    /\ last_button_b_time > 0 /\ current_time - last_button_b_time = 1
    /\ colormap_index = 1

\* C12: the colormap index is always a position of the catalog, the selected
\* entry (name and table) is the catalog's entry at that position, also
\* while and after tables from files are appended; after k taken presses of
\* A the index is k modulo the catalog size, so each press advances it by one
\* modulo the size and a catalog's worth of presses selects the first entry
\* again.
C12_ColormapIndexWraps ==
    /\ colormap_index \in 0..(Len(colormaps) - 1)
    /\ current_colormap = colormaps[colormap_index + 1]
    /\ pc = "ready" => colormap_index = iter % Len(colormaps)
    /\ (pc = "ready" /\ iter = Len(colormaps))
          => (colormap_index = 0 /\ current_colormap.name = "HOT")

\* C12 witness: a catalog extended by two files was stepped through once
C12_Witness ==
    /\ pc = "ready" /\ Len(loaded_luts) = 2
    /\ iter = Len(colormaps) /\ colormap_index = 0

\* C13: a press of B whose window has elapsed completes the toggle whether or
\* not the governor change works: the display state flips, the backlight
\* follows it, the governor of the new state is the one requested, a toggle
\* to off leaves the stream stopped, the running flag stays set and the
\* iteration goes on to its frame handling; the system governor is the
\* requested one or, after a failed change, the one it was.
C13_GovernorBestEffort ==
    [][ ( /\ pc = "buttons" /\ pc' # "buttons"
          /\ button_b_pressed' /\ current_time - last_button_b_time > 3 )
        => ( /\ pc' = "frame"
             /\ is_running' /\ is_running
             /\ display_active' = ~display_active
             /\ backlight' = display_active'
             /\ governor_request' = (IF display_active' THEN "ondemand" ELSE "powersave")
             /\ cpu_governor' \in {governor_request', cpu_governor}
             /\ ~display_active' => (~stream_is_active' /\ ~hw_streaming')
             /\ display_active' => (stream_is_active' <=> hw_streaming') )
      ]_vars

\* C13 witness: toggled to off while the change to powersave failed
C13_Witness ==
    /\ pc = "frame" /\ button_b_pressed /\ last_button_b_time = current_time
    /\ is_running /\ ~display_active /\ ~backlight /\ ~stream_is_active
    /\ governor_request = "powersave" /\ cpu_governor = "ondemand"

\* C14: a capture failure at startup is fatal.  After a failed camera setup
\* the main thread is only ever in run()'s finally or finished, and the loop
\* never polls its buttons for the first time with the stream not started:
\* a failed uvc_start_streaming at startup keeps the viewer out of the loop.
C14_StartupCaptureFailureFatal ==
    /\ init_error # "none" => pc \in {"exit", "done"}
    /\ (pc = "buttons" /\ last_button_b_time = 0) => stream_is_active

\* the viewer is in RUNNING but the stream start of the last toggle failed
StartFailedByToggle ==
    is_running /\ display_active /\ ~stream_is_active /\ last_button_b_time > 0

C16_ExitCodeTellsFailure ==
    pc = "done" =>
        IF init_error = "none" THEN exit_code = <<0>>
        ELSE (exit_code # <<>> /\ exit_code # <<0>>)

\* C17: an error raised while an iteration works on its frame is handled
\* inside the loop: the main thread goes back to the while test with the
\* running flag set and with the display state, the stream, the colormap and
\* the queue as they were; and whenever the main thread leaves the loop the
\* running flag has been cleared, by the thermal shutdown or by a
\* KeyboardInterrupt.
C17_LoopSurvivesErrors ==
    /\ [][ (waited' = "error" /\ waited # "error")
           => ( /\ pc \in LoopStages /\ pc' = "loop"
                /\ is_running /\ is_running'
                /\ ~shutdown_requested'
                /\ UNCHANGED <<display_active, stream_is_active, hw_streaming,
                               backlight, colormap_index, frame_queue, displayed>> )
       ]_vars
    /\ [][ (pc \in LoopStages /\ pc' \notin LoopStages)
           => (pc' = "exit" /\ ~is_running') ]_vars
    /\ []((pc \in LoopStages \ {"loop"}) => is_running)

\* C17 witness: a second iteration is under way after an error in the first
C17_Witness ==
    /\ pc = "buttons" /\ iter = 2 /\ is_running
    /\ displayed = 0 /\ next_seq = 2 /\ frame_queue = <<>>
    /\ prod_pc = "idle" /\ cb_outcome = "enqueued"
    /\ last_button_b_time = 0 /\ stream_is_active

\* C18: an iteration that ends with the display off has not dequeued a frame,
\* has no frame in hand, has drawn nothing and has slept its 250 ms before
\* the next while test; no frame is ever processed while the display is off.
C18_NoCaptureWhenOff ==
    /\ [][ (pc \in LoopStages /\ pc # "loop" /\ pc' = "loop" /\ ~display_active')
           => ( /\ pc = "frame"
                /\ waited' = "sleep"
                /\ frame_uyvy' = NoFrame
                /\ UNCHANGED <<frame_queue, displayed, display_active>> )
       ]_vars
    /\ [](pc = "render" => display_active)
    /\ [](~display_active => (frame_uyvy = NoFrame /\ waited # "get"))

\* C18 witness: a whole iteration passed with the display off
C18_Witness ==
    /\ pc = "loop" /\ is_running /\ ~display_active /\ waited = "sleep"
    /\ iter >= 2 /\ last_button_b_time < current_time

\* C19: when the selected table is an array that fails a check of the
\* colormap step (shape other than 256 x 1 x 3, dtype other than uint8, not
\* contiguous, or not 768 elements), the frame's color image is its gray
\* image with no table applied and the failed validation is logged; the step
\* goes on to draw that image and the loop to its next iteration, with the
\* selection and the catalog as they were.  An array that passes the checks
\* logs no failed validation.
C19_InvalidLutFallsBackToGray ==
    /\ [][ ( /\ pc = "render" /\ pc' # "render"
             /\ current_colormap.table.kind = "ndarray"
             /\ ( \/ current_colormap.table.shape # <<256, 1, 3>>
                  \/ current_colormap.table.dtype # "uint8"
                  \/ ~current_colormap.table.contig
                  \/ Size(current_colormap.table.shape) # 768 ) )
           => ( /\ frame_color' = [how |-> "gray", of |-> frame_uyvy.seq, lut |-> "none"]
                /\ validation_error'
                /\ pc' = "blit"
                /\ is_running'
                /\ UNCHANGED <<colormap_index, current_colormap, loaded_luts>> )
       ]_vars
    /\ [][ ( /\ pc = "render" /\ pc' # "render"
             /\ current_colormap.table.kind = "ndarray"
             /\ current_colormap.table = Ndarray(<<256, 1, 3>>, "uint8", TRUE) )
           => ~validation_error' ]_vars
    /\ [][ (pc = "blit" /\ pc' # "blit")
           => ( /\ displayed' = frame_color.of
                /\ pc' = "loop" /\ is_running'
                /\ UNCHANGED <<colormap_index, current_colormap, loaded_luts,
                               frame_color>> )
       ]_vars

\* C19 witness: a frame was drawn in gray because the selected table holds
\* floats
C19_Witness ==
    /\ pc = "loop" /\ is_running
    /\ current_colormap.table.kind = "ndarray"
    /\ current_colormap.table.dtype = "float32"
    /\ frame_color.how = "gray" /\ validation_error
    /\ displayed = frame_color.of /\ displayed > 0

\* a lookup table of 256 entries of 3 bytes
Is256x3Bytes(t) == t.shape = <<256, 1, 3>> /\ t.dtype = "uint8"

\* C20: every entry of the catalog is a built-in colormap or an array of 256
\* entries of 3 bytes, the three gradients included; the scan of a .lut file
\* either appends one such array under the file's name or leaves the catalog
\* as it was, so no other array is ever in the catalog.
C20_CatalogTablesAre256x3 ==
    /\ [](\A i \in 1..Len(colormaps) :
             /\ colormaps[i].table.kind \in {"builtin", "ndarray"}
             /\ colormaps[i].table.kind = "ndarray" => Is256x3Bytes(colormaps[i].table))
    /\ [](\A i \in 6..8 : colormaps[i].table.kind = "ndarray")
    /\ [][ lut_files' # lut_files
           => \/ loaded_luts' = loaded_luts
              \/ /\ Len(loaded_luts') = Len(loaded_luts) + 1
                 /\ SubSeq(loaded_luts', 1, Len(loaded_luts)) = loaded_luts
                 /\ loaded_luts'[Len(loaded_luts')].name = Head(lut_files).name
                 /\ Is256x3Bytes(loaded_luts'[Len(loaded_luts')].table)
       ]_vars

\* C20 witness: of two files the scan took the one it had to resize
C20_Witness ==
    /\ pc = "ready" /\ Len(colormaps) = 9
    /\ colormaps[9].name = "SHORT"
    /\ colormaps[6].name = "RED_GRADIENT"


\* C21: a well-formed external table (3-tuples of bytes) of length 0 is not
\* appended; one of length 256 is appended with its entries unchanged; one of
\* any other length is resampled to exactly 256 entries, and is appended
\* only with 256 entries.
C21_ExternalTableLengths ==
    (pc = "table_done" /\ InByteRange(lut_values)) =>
        LET n == Len(lut_values)
            appended == loaded_luts # <<>>
        IN  /\ (n = 0) => ~appended
            /\ (n = 256) => (appended /\ lut_rows = lut_values)
            /\ (n \notin {0, 256}) => Len(lut_rows) = 256
            /\ appended => (Len(lut_rows) = 256 /\ InByteRange(lut_rows))

\* a table of two entries was resampled to 256 and appended
C21_Witness ==
    /\ pc = "table_done"
    /\ InByteRange(lut_values)
    /\ Len(lut_values) = 2
    /\ Len(lut_rows) = 256
    /\ lut_rows[1] = lut_values[1]
    /\ lut_rows[256] = lut_values[2]
    /\ lut_rows[128] # lut_values[1] /\ lut_rows[128] # lut_values[2]
    /\ Len(loaded_luts) = 1

\* a table the scan must refuse: not a list at the top level, an element that
\* is not a 3-tuple, or a component that is not a number
Malformed(f) == ~f.parses \/ ~f.is_list \/ ~f.tuples3 \/ f.values = "text"

\* a non-empty list of 3-tuples of bytes
WellFormedFile(f) ==
    /\ f.bracketed /\ f.parses /\ f.is_list /\ f.tuples3
    /\ f.values = "byte" /\ f.length > 0

Named(name) == { j \in 1..Len(loaded_luts) : loaded_luts[j].name = name }

GradientChannel(color) ==
    CHOOSE c \in 1..3 : gradient_colors(color)[2][c] = 255

\* rows first..last rise from black to white, equal in the three channels
BlackToWhite(rows, first, last) ==
    /\ rows[first] = <<0, 0, 0>>
    /\ last > first => rows[last] = <<255, 255, 255>>
    /\ \A i \in first..last : rows[i][1] = rows[i][2] /\ rows[i][2] = rows[i][3]
    /\ \A i \in first..(last - 1) : rows[i][1] <= rows[i + 1][1]

\* rows first..last rise from the dark to the saturated colour in channel ch
ColourRamp(rows, first, last, color) ==
    LET ch == GradientChannel(color) IN
    /\ rows[first] = gradient_colors(color)[1]
    /\ last > first => rows[last] = gradient_colors(color)[2]
    /\ \A i \in first..last : \A c \in (1..3) \ {ch} : rows[i][c] = 0
    /\ \A i \in first..(last - 1) : rows[i][ch] <= rows[i + 1][ch]

\* C23: with a supported colour and a gradient step in 1..255,
\* create_custom_lut returns 256 entries of 3 bytes, a black-to-white ramp of
\* 256 - step entries followed by a colour ramp of step entries; with a step
\* <= 0 or >= 256 it raises and returns no table.
C23_GradientTable ==
    (pc = "gradient_done" /\ gradient_call[1] \in {"red", "green", "blue"}) =>
        LET color == gradient_call[1]
            step == gradient_call[2]
            rows == custom_lut.rows
        IN  /\ (step \in 1..255) =>
                  /\ custom_lut.table = Ndarray(<<256, 1, 3>>, "uint8", TRUE)
                  /\ Len(rows) = 256
                  /\ InByteRange(rows)
                  /\ BlackToWhite(rows, 1, 256 - step)
                  /\ ColourRamp(rows, 256 - step + 1, 256, color)
            /\ (step <= 0 \/ step >= 256) =>
                  /\ custom_lut.table = Raised
                  /\ rows = <<>>

\* the red gradient of the catalog: 192 gray entries, then 64 in one channel
C23_Witness ==
    /\ pc = "gradient_done"
    /\ gradient_call = <<"red", GRADIENT_STEP>>
    /\ Len(custom_lut.rows) = 256
    /\ custom_lut.rows[192] = <<255, 255, 255>>
    /\ custom_lut.rows[193] = <<64, 0, 0>>
    /\ custom_lut.rows[256] = <<255, 0, 0>>

\* C24: with max > min every pixel v goes to the integer nearest to
\* (v - min) * 255 / (max - min), so min goes to 0 and max to 255, the result
\* stays in 0..255 and does not decrease when v grows; with max = min the
\* pixels are returned as they are and no alpha is computed.
C24_AutoGain ==
    (pc = "colormap") =>
        LET mn == min_val(frame_gray)
            mx == max_val(frame_gray)
            out == frame_gray_agc.pixels
            px == 1..Len(frame_gray)
        IN  /\ Len(out) = Len(frame_gray)
            /\ (mx > mn) =>
                  /\ \A i \in px : out[i] \in 0..255
                  /\ \A i \in px : frame_gray[i] = mn => out[i] = 0
                  /\ \A i \in px : frame_gray[i] = mx => out[i] = 255
                  /\ \A i \in px :
                        LET d == 2 * (out[i] * (mx - mn) - (frame_gray[i] - mn) * 255)
                        IN  d <= mx - mn /\ 0 - d <= mx - mn
                  /\ \A i, j \in px : frame_gray[i] <= frame_gray[j] => out[i] <= out[j]
                  /\ (mn = 50 /\ mx = 200) =>
                        \A i \in px : /\ frame_gray[i] = 50 => out[i] = 0
                                      /\ frame_gray[i] = 200 => out[i] = 255
            /\ (mx = mn) =>
                  /\ out = frame_gray
                  /\ frame_gray_agc.alpha = <<>>

\* min 50 and max 200: 50 went to 0, 200 to 255, 125 to 127 or 128
C24_Witness ==
    /\ pc = "colormap"
    /\ frame_gray = <<50, 125, 200>>
    /\ frame_gray_agc.pixels[1] = 0
    /\ frame_gray_agc.pixels[2] = 128
    /\ frame_gray_agc.pixels[3] = 255

\* C25: under every interleaving of the callback with the render loop, a
\* frame the loop dequeues was captured later than every frame it dequeued
\* before, so none is dequeued twice, and no copy of it stays in the queue.
C25_FramesInCaptureOrder ==
    [][ (pc = "frame" /\ pc' = "render") =>
            /\ frame_uyvy' # NoFrame
            /\ frame_uyvy'.seq > dequeued
            /\ dequeued' = frame_uyvy'.seq
            /\ \A i \in 1..Len(frame_queue') : frame_queue'[i].seq > frame_uyvy'.seq
      ]_vars

\* frame 1 was drawn, and the loop has now dequeued frame 3
C25_Witness ==
    /\ pc = "render"
    /\ displayed = 1
    /\ frame_uyvy.seq = 3
    /\ dequeued = 3

\* C26: over the whole run each capture resource (context, device, device
\* handle) is released at most once: uvc_exit, uvc_unref_device and
\* uvc_close are never called on a resource that was already released.
C26_ReleasedAtMostOnce ==
    \A r \in {"ctx", "dev", "devh"} : released[r] <= 1

\* C27: an iteration of the loop that dequeues and renders no frame has
\* waited when it ends, in the dequeue's timeout or in the 250 ms sleep, also
\* when the display is on and the stream is not active.
C27_IdleIterationsWait ==
    [][ (pc = "frame" /\ pc' = "loop") => waited' \in {"get", "sleep"} ]_vars

C29_UnavailableReadingIsHarmless ==
    [][ ( /\ pc = "loop" /\ iter' = iter + 1
          /\ ThermalPollDue(current_time', last_temp_shutdown_check_time)
          /\ (~cpu_temp'.valid \/ cpu_temp'.milli = CPU_TEMP_SHUTDOWN_THRESHOLD_C * 1000) )
        => /\ ~shutdown_requested' /\ is_running' /\ pc' = "buttons"
           /\ UNCHANGED <<display_active, stream_is_active, hw_streaming, backlight>>
           /\ last_temp_shutdown_check_time' = current_time'
           /\ \A d \in 0..(CPU_TEMP_SHUTDOWN_CHECK_INTERVAL_S * 10) :
                 ~ThermalPollDue(current_time' + d, last_temp_shutdown_check_time')
      ]_vars

\* a poll was due, the sensor gave no reading, and the loop goes on
C29_Witness ==
    /\ pc = "buttons"
    /\ is_running
    /\ cpu_temp = TempNone
    /\ current_time - StartTime > CPU_TEMP_SHUTDOWN_CHECK_INTERVAL_S * 10
    /\ last_temp_shutdown_check_time = current_time
====
